---- MODULE Spec2Model ----
(***************************************************************************)
(* A model of Node (src/Node.py) and GradientNetwork                       *)
(* (src/GradientDescent.py).                                               *)
(*                                                                         *)
(* Numbers.  Python floats are modelled as fixed-point integers: the real  *)
(* number r is the integer round(r * Scale).  Products and quotients are   *)
(* rounded to the nearest unit, e ** x is computed by range reduction and  *)
(* a Taylor polynomial.  A float operation that raises OverflowError in    *)
(* Python (e ** x past the largest float, b ** 2 past it) is modelled by   *)
(* a predicate on its argument, and the operation that holds it by its     *)
(* outcome "OverflowError".  Magnitudes are bounded: goals stay below ten, *)
(* so (c - goal) ** 2 is always in range.  Python ints (lengths, counters, *)
(* numInputs, size) stay plain integers.  Python indices are 0-based, the  *)
(* model's 1-based: layer 0 of the code is layer 1 here.                   *)
(*                                                                         *)
(* Three specifications share the variables:                               *)
(*   Spec       the trainer GradientNetwork on a small network;            *)
(*   SpecNode   Node objects on a heap of list objects with identity;      *)
(*   SpecGraph  one isConnectedTo call on a children graph.                *)
(* Each leaves the variables of the other two at their initial values.     *)
(***************************************************************************)
EXTENDS Integers, Sequences, FiniteSets, TLC

(***************************************************************************)
(* Bounds of the model.                                                    *)
(***************************************************************************)
\* training calls (stepGeneration, evolve, evolveTillTolerance) and forward
\* calls a caller makes on one network
MaxCalls == 1
MaxForwards == 1
\* the networks and random units drawn
NumSeeds == 2
\* the largest maxIter a trainer is built with
MaxIter == 2
\* SpecNode: units alive, operations performed, length of a weight list,
\* entries of a children list
MaxUnits == 2
MaxOps == 3
MaxLen == 2
MaxKids == 2
\* SpecGraph: units of the graph, and the most interpreter levels a caller of
\* isConnectedTo has left before the interpreter raises RecursionError
NumGraphNodes == 3
RecursionLimit == 8

(***************************************************************************)
(* Fixed-point arithmetic standing for float arithmetic.                   *)
(***************************************************************************)
Scale == 1000

Abs(x) == IF x < 0 THEN -x ELSE x

Min(x, y) == IF x < y THEN x ELSE y

\* x / y for a positive integer y, rounded to the nearest integer
RoundDiv(x, y) == (x + y \div 2) \div y

\* x * y / Scale rounded, computed from the quotient and remainder of y by Scale
\* (the same number as RoundDiv(x * y, Scale), without the large product)
MulDiv(x, y) == x * (y \div Scale) + RoundDiv(x * (y % Scale), Scale)

\* float * float
FMul(x, y) == IF Abs(x) <= Abs(y) THEN MulDiv(x, y) ELSE MulDiv(y, x)

\* float / float, y # 0 (the callers treat y = 0: ZeroDivisionError)
FDiv(x, y) == IF y > 0 THEN RoundDiv(x * Scale, y) ELSE RoundDiv((-x) * Scale, -y)

\* float / int, n > 0
FDivInt(x, n) == RoundDiv(x, n)

\* math.e
EULER == 2718

\* log of the largest float: e ** x raises OverflowError for x above it
EXP_OVERFLOW == 709782

\* log of the square root of the largest float: with b = e ** x + 1, b ** 2 raises
\* OverflowError for x above it
SQUARE_OVERFLOW == 354891

\* e ** x is kept at e ** 13 for x above 13, and is 0 for x below -8: past these
\* the reciprocals and gradients formed from it are below one unit
EXP_SATURATION == 13000

\* the largest b whose square (times numInputs) the integers of the model hold
SQUARE_REPRESENTABLE == 600000

\* e ** x raises OverflowError
PowRaises(x) == x > EXP_OVERFLOW

\* (e ** x + 1) ** 2 raises OverflowError
SquareRaises(x) == x > SQUARE_OVERFLOW

\* e ** n for an integer n
RECURSIVE ExpInt(_)
ExpInt(n) ==
    IF n = 0 THEN Scale
    ELSE IF n > 0 THEN FMul(ExpInt(n - 1), EULER)
    ELSE FDiv(ExpInt(n + 1), EULER)

\* e ** f for 0 <= f < 1: the Taylor polynomial of degree 6
\* 1 + f (1 + f/2 (1 + f/3 (1 + f/4 (1 + f/5 (1 + f/6)))))
ExpFrac(f) ==
    Scale + FMul(f, Scale + FMul(f \div 2, Scale + FMul(f \div 3,
            Scale + FMul(f \div 4, Scale + FMul(f \div 5, Scale + f \div 6)))))

\* e ** x, for x that does not raise
ExpSplit(y) == FMul(ExpInt(y \div Scale), ExpFrac(y % Scale))

Exp(x) == IF x < (-8) * Scale THEN 0 ELSE ExpSplit(Min(x, EXP_SATURATION))

RECURSIVE SumSeq(_)
SumSeq(s) == IF s = <<>> THEN 0 ELSE Head(s) + SumSeq(Tail(s))

(***************************************************************************)
(* Node: the numeric methods, on the values of the weight and bias lists.  *)
(***************************************************************************)
MIN_WEIGHT == -3
MAX_WEIGHT == 3
MIN_BIAS == -1
MAX_BIAS == 1
DEFAULT_SIGMOID_VALUE == 100
MAX_MUTATION == 500

\* the exponent of Node.sigmoid: -1 * num * sigmoid_value
SigmoidExponent(num, sigmoid_value) == FMul((-1) * num, sigmoid_value)

\* Node.sigmoid raises OverflowError
sigmoidRaises(num, sigmoid_value) == PowRaises(SigmoidExponent(num, sigmoid_value))

\* Node.sigmoid: 1 / (1 + e ** (-1 * num * sigmoid_value)) / numInputs
sigmoid(num, sigmoid_value, numInputs) ==
    FDivInt(FDiv(Scale, Scale + Exp(SigmoidExponent(num, sigmoid_value))), numInputs)

\* the number of triples zip / map take from three lists
ZipLen(weights, biases, nums) == Min(Min(Len(weights), Len(biases)), Len(nums))

\* Node.__call__ raises OverflowError (in sigmoid, for some triple)
NodeCallRaises(weights, biases, sigmoid_value, nums) ==
    \E i \in 1..ZipLen(weights, biases, nums) :
        sigmoidRaises(FMul(weights[i], nums[i]) + biases[i], sigmoid_value)

\* Node.__call__: the sum over the triples; map stops at the shortest list
NodeCall(weights, biases, sigmoid_value, numInputs, nums) ==
    SumSeq([i \in 1..ZipLen(weights, biases, nums) |->
              sigmoid(FMul(weights[i], nums[i]) + biases[i], sigmoid_value, numInputs)])

\* Node.gradientHelper raises OverflowError: at e ** (-a * sigmoid_value), or at b ** 2
gradientHelperRaises(weight, bias, num, sigmoid_value) ==
    LET a == FMul(weight, num) + bias
        x == FMul(-a, sigmoid_value)
    IN  PowRaises(x) \/ SquareRaises(x)

\* Node.gradientHelper from b on: c = 1 / (b * numInputs), the partial derivative
\* with respect to the bias 2 * sigmoid_value * b * (c - goal) / (b ** 2 * numInputs)
\* (past SQUARE_REPRESENTABLE the same number with b cancelled once)
PartialRespectBias(b, goal, sigmoid_value, numInputs) ==
    IF b <= SQUARE_REPRESENTABLE
    THEN FDiv(FMul(FMul(2 * sigmoid_value, b), FDiv(Scale, b * numInputs) - goal),
              FMul(b, b) * numInputs)
    ELSE FDiv(FMul(2 * sigmoid_value, FDiv(Scale, b * numInputs) - goal),
              b * numInputs)

\* the returned pair: the partial derivative with respect to the weight is the
\* one with respect to the bias times num
BothPartials(partialDerivativeRespectBias, num) ==
    <<FMul(partialDerivativeRespectBias, num), partialDerivativeRespectBias>>

\* Node.gradientHelper: <<d loss / d weight, d loss / d bias>>, with
\* a = weight * num + bias and b = e ** (-a * sigmoid_value) + 1
gradientHelper(weight, bias, num, goal, sigmoid_value, numInputs) ==
    BothPartials(
        PartialRespectBias(Exp(FMul(-(FMul(weight, num) + bias), sigmoid_value)) + Scale,
                           goal, sigmoid_value, numInputs),
        num)

\* the two in-place updates of one pass of gradient's loop
ApplyChange(wb, index, change, learnRate) ==
    [weights |-> [wb.weights EXCEPT ![index] = @ - FMul(change[1], learnRate)],
     biases |-> [wb.biases EXCEPT ![index] = @ - FMul(change[2], learnRate)],
     raised |-> FALSE,
     passes |-> wb.passes + 1]

\* One pass of the body of gradient's loop, at the (1-based) position index:
\* the pair read from the lists as they are now, goal / length, the updates.
GradientAt(wb, index, nums, goal, learnRate, sigmoid_value, numInputs) ==
    ApplyChange(wb, index,
                gradientHelper(wb.weights[index], wb.biases[index], nums[index],
                               FDivInt(goal, Len(nums)), sigmoid_value, numInputs),
                learnRate)

\* Node.gradient: enumerate(zip(weights, biases, nums)) from position index on;
\* a pass that raises leaves the lists as the passes before it made them;
\* wb.passes counts the passes that made their two updates
RECURSIVE GradientLoop(_, _, _, _, _, _, _)
GradientLoop(wb, index, nums, goal, learnRate, sigmoid_value, numInputs) ==
    IF index > ZipLen(wb.weights, wb.biases, nums) THEN wb
    ELSE IF gradientHelperRaises(wb.weights[index], wb.biases[index], nums[index],
                                 sigmoid_value)
    THEN [wb EXCEPT !.raised = TRUE]
    ELSE GradientLoop(GradientAt(wb, index, nums, goal, learnRate, sigmoid_value, numInputs),
                      index + 1, nums, goal, learnRate, sigmoid_value, numInputs)

\* Node.gradient on the lists weights and biases: the lists after the call, and
\* whether the call raised
gradient(weights, biases, nums, goal, learnRate, sigmoid_value, numInputs) ==
    GradientLoop([weights |-> weights, biases |-> biases, raised |-> FALSE, passes |-> 0],
                 1, nums, goal, learnRate, sigmoid_value, numInputs)

(***************************************************************************)
(* State.                                                                  *)
(*   Spec: net (the nodes table: layer -> index -> the unit's weights and  *)
(*   biases), value, maxIter, and the position of the running call (pc,    *)
(*   call); fwdCount, stepCount, gradLog, outcome, report, calls, forwards *)
(*   and initNet record what the calls did.                                *)
(*   SpecNode: lists (the float list objects, by identity), clists (the    *)
(*   children list objects), units (the Node objects: their attributes,    *)
(*   lists held by identity); lastOp, origin, sharing and ops record what  *)
(*   was done: the last operation, the unit a copy was made of, whether a  *)
(*   copy and its original still hold the children they had at the copy.   *)
(*   SpecGraph: children (unit -> its children list), root and other (the  *)
(*   call root.isConnectedTo(other)), recursionlimit (the interpreter      *)
(*   levels left to the caller), stack (the isConnectedTo frames: the unit *)
(*   and the position in its children), ret (the value a frame just       *)
(*   returned), gpc, answer and ending (how the call ended).               *)
(***************************************************************************)
VARIABLES net, value, maxIter, pc, call, fwdCount, stepCount, gradLog,
          outcome, report, calls, forwards, initNet,
          lists, clists, units, lastOp, origin, sharing, ops,
          recursionlimit, children, root, other, stack, ret, gpc, answer, ending

trainerVars == <<net, value, maxIter, pc, call, fwdCount, stepCount, gradLog,
                 outcome, report, calls, forwards, initNet>>

nodeVars == <<lists, clists, units, lastOp, origin, sharing, ops>>

graphVars == <<recursionlimit, children, root, other, stack, ret, gpc, answer, ending>>

vars == <<trainerVars, nodeVars, graphVars>>

(***************************************************************************)
(* The network the trainer extends (NeuralNetwork, not among the sources): *)
(* numLayers layers of nodesInLayer units, the units of layer 0 taking the *)
(* input vector, the units of a later layer the outputs of the layer       *)
(* before, value the sum of the last layer's outputs, 0 before the first   *)
(* forward pass; the units are randomNode's.                               *)
(***************************************************************************)
NumInputs == 2
NodesInLayer == 2
NumLayers == 2
DEFAULT_LEARN_RATE == 100
MAXIMUM_ITERATION == 1000

\* uniform(MIN_WEIGHT, MAX_WEIGHT), uniform(MIN_BIAS, MAX_BIAS): a draw is one of
\* a few sample points of the range, picked by the seed and the position
WeightSample(seed, l, i, k) ==
    MIN_WEIGHT * Scale + ((seed * 3 + l * 5 + i * 3 + k * 11) % 7) * Scale

BiasSample(seed, l, i, k) ==
    MIN_BIAS * Scale + ((seed + l + i * 2 + k * 5) % 3) * Scale

\* randomNode(numInputs), its draws taken at (seed, l, i)
randomNode(numInputs, seed, l, i) ==
    [weights |-> [k \in 1..numInputs |-> WeightSample(seed, l, i, k)],
     biases |-> [k \in 1..numInputs |-> BiasSample(seed, l, i, k)]]

NewNetwork(seed) ==
    [l \in 1..NumLayers |->
        [i \in 1..NodesInLayer |->
            randomNode(IF l = 1 THEN NumInputs ELSE NodesInLayer, seed, l, i)]]

\* the outputs of the units of layer l called on nums
LayerCall(nodes, l, nums) ==
    [i \in 1..NodesInLayer |->
        NodeCall(nodes[l][i].weights, nodes[l][i].biases, DEFAULT_SIGMOID_VALUE,
                 Len(nodes[l][i].weights), nums)]

\* the outputs of layer l of the table nodes on the input vector inputs
RECURSIVE LayerOutputs(_, _, _)
LayerOutputs(nodes, l, inputs) ==
    LayerCall(nodes, l, IF l = 1 THEN inputs ELSE LayerOutputs(nodes, l - 1, inputs))

\* a unit of layer l raises when called on nums
LayerRaises(nodes, l, nums) ==
    \E i \in 1..NodesInLayer :
        NodeCallRaises(nodes[l][i].weights, nodes[l][i].biases, DEFAULT_SIGMOID_VALUE, nums)

\* a unit of layers 1..l raises in its __call__
RECURSIVE LayersRaise(_, _, _)
LayersRaise(nodes, l, inputs) ==
    IF l = 0 THEN FALSE
    ELSE \/ LayersRaise(nodes, l - 1, inputs)
         \/ LayerRaises(nodes, l,
                        IF l = 1 THEN inputs ELSE LayerOutputs(nodes, l - 1, inputs))

\* NeuralNetwork.__call__ raises OverflowError
NetForwardRaises(nodes, inputs) == LayersRaise(nodes, NumLayers, inputs)

\* NeuralNetwork.__call__: the new value
NetForward(nodes, inputs) == SumSeq(LayerOutputs(nodes, NumLayers, inputs))

(***************************************************************************)
(* GradientNetwork.                                                        *)
(***************************************************************************)
\* self.size = nodesInLayer * numLayers
size == NodesInLayer * NumLayers

\* the layer stepGeneration trains: self.nodes[0]
TrainedLayer == 1

\* the table, the log and the flag after gradient was invoked on the unit at index
\* of the trained layer and left it as new
AfterGradient(st, index, new) ==
    [nodes |-> [st.nodes EXCEPT ![TrainedLayer][index] =
                   [weights |-> new.weights, biases |-> new.biases]],
     log |-> Append(st.log, <<TrainedLayer, index>>),
     raised |-> new.raised]

\* node.gradient(inputs, goal / self.size, self.learnRate)
NodeGradient(node, inputs, goal) ==
    gradient(node.weights, node.biases, inputs, FDivInt(goal, size),
             DEFAULT_LEARN_RATE, DEFAULT_SIGMOID_VALUE, Len(node.weights))

\* stepGeneration's loop from (1-based) index on: st.nodes is the table, st.log
\* the units gradient was invoked on so far, st.raised whether gradient raised
RECURSIVE StepGenerationLoop(_, _, _, _)
StepGenerationLoop(st, index, inputs, goal) ==
    IF index > NodesInLayer \/ st.raised THEN st
    ELSE StepGenerationLoop(
             AfterGradient(st, index,
                           NodeGradient(st.nodes[TrainedLayer][index], inputs, goal)),
             index + 1, inputs, goal)

stepGeneration(nodes, inputs, goal) ==
    StepGenerationLoop([nodes |-> nodes, log |-> <<>>, raised |-> FALSE], 1, inputs, goal)

\* abs(self.value - goal) < abs(tolerance * goal)
WithinTolerance(v, goal, tolerance) == Abs(v - goal) < Abs(FMul(tolerance, goal))

\* while iterationCounter < MAXIMUM_ITERATION
LoopContinues(iterationCounter) == iterationCounter < MAXIMUM_ITERATION

\* for _ in range(self.maxIter): there is a round after `done` rounds
EvolveContinues(done, limit) == done < limit

\* if tolerance <= 0: tolerance = 0.1
EffectiveTolerance(tolerance) == IF tolerance <= 0 THEN 100 ELSE tolerance

\* abs((self.value - goal) * 100 / goal), goal # 0
PercentOfGoal(v, goal) == Abs(FDiv((v - goal) * 100, goal))

(***************************************************************************)
(* The arguments the calls are made with.                                  *)
(***************************************************************************)
\* one vector of ordinary size, one of large entries
InputVectors ==
    { [k \in 1..NumInputs |-> Scale],
      [k \in 1..NumInputs |-> 2000 * Scale] }

\* goals: zero, the value the forward pass gives on the inputs with the
\* parameters as they are (when it gives one), and one out of the network's reach
Goals(inputs) ==
    {0, 5 * Scale} \cup
    (IF NetForwardRaises(net, inputs) THEN {} ELSE {NetForward(net, inputs)})

Tolerances == {0, 300}

NoCall == [op |-> "none", inputs |-> <<>>, goal |-> 0, tolerance |-> 0,
           iterationCounter |-> 0, untrained |-> TRUE]

\* GradientNetwork(numInputs, nodesInLayer, numLayers, maxIter): a new trainer
TrainerInit ==
    /\ \E seed \in 1..NumSeeds : net = NewNetwork(seed)
    /\ initNet = net
    /\ value = 0
    /\ maxIter \in 0..MaxIter
    /\ pc = "idle"
    /\ call = NoCall
    /\ fwdCount = 0
    /\ stepCount = 0
    /\ gradLog = <<>>
    /\ outcome = "none"
    /\ report = 0
    /\ calls = 0
    /\ forwards = 0

\* a caller's self(inputs)
CallForwardWith(inputs) ==
    /\ forwards' = forwards + 1
    /\ call' = [NoCall EXCEPT !.op = "forward", !.inputs = inputs,
                              !.untrained = (net = initNet)]
    /\ IF NetForwardRaises(net, inputs)
       THEN value' = value /\ fwdCount' = 0 /\ outcome' = "OverflowError"
       ELSE value' = NetForward(net, inputs) /\ fwdCount' = 1 /\ outcome' = "ok"
    /\ stepCount' = 0
    /\ UNCHANGED <<net, maxIter, pc, gradLog, report, calls, initNet>>
    /\ UNCHANGED <<nodeVars, graphVars>>

\* a caller's stepGeneration(inputs, goal)
CallStepGenerationWith(inputs, goal) ==
    /\ calls' = calls + 1
    /\ \E st \in {stepGeneration(net, inputs, goal)} :
           /\ net' = st.nodes
           /\ gradLog' = st.log
           /\ outcome' = IF st.raised THEN "OverflowError" ELSE "ok"
    /\ call' = [NoCall EXCEPT !.op = "stepGeneration", !.inputs = inputs, !.goal = goal,
                              !.untrained = (net = initNet)]
    /\ fwdCount' = 0
    /\ stepCount' = 1
    /\ UNCHANGED <<value, maxIter, pc, report, forwards, initNet>>
    /\ UNCHANGED <<nodeVars, graphVars>>

\* evolve(inputs, goal): entry, up to the first test of the for loop
CallEvolveWith(inputs, goal) ==
    /\ calls' = calls + 1
    /\ call' = [NoCall EXCEPT !.op = "evolve", !.inputs = inputs, !.goal = goal,
                              !.untrained = (net = initNet)]
    /\ fwdCount' = 0
    /\ stepCount' = 0
    /\ IF EvolveContinues(0, maxIter)
       THEN pc' = "evolve_forward" /\ outcome' = "running"
       ELSE pc' = "idle" /\ outcome' = "ok"
    /\ UNCHANGED <<net, value, maxIter, gradLog, report, forwards, initNet>>
    /\ UNCHANGED <<nodeVars, graphVars>>

\* evolve: self(inputs); print
EvolveForward ==
    /\ pc = "evolve_forward"
    /\ IF NetForwardRaises(net, call.inputs)
       THEN /\ outcome' = "OverflowError"
            /\ pc' = "idle"
            /\ UNCHANGED <<value, fwdCount>>
       ELSE /\ value' = NetForward(net, call.inputs)
            /\ fwdCount' = fwdCount + 1
            /\ pc' = "evolve_step"
            /\ outcome' = outcome
    /\ UNCHANGED <<net, maxIter, call, stepCount, gradLog, report, calls, forwards, initNet>>
    /\ UNCHANGED <<nodeVars, graphVars>>

\* evolve: self.stepGeneration(inputs, goal), and the loop's next test
EvolveStep ==
    /\ pc = "evolve_step"
    /\ \E st \in {stepGeneration(net, call.inputs, call.goal)} :
           /\ net' = st.nodes
           /\ gradLog' = st.log
           /\ stepCount' = stepCount + 1
           /\ IF st.raised
              THEN outcome' = "OverflowError" /\ pc' = "idle" /\ call' = call
              ELSE /\ call' = [call EXCEPT !.iterationCounter = @ + 1]
                   /\ IF EvolveContinues(call.iterationCounter + 1, maxIter)
                      THEN pc' = "evolve_forward" /\ outcome' = outcome
                      ELSE pc' = "idle" /\ outcome' = "ok"
    /\ UNCHANGED <<value, maxIter, fwdCount, report, calls, forwards, initNet>>
    /\ UNCHANGED <<nodeVars, graphVars>>

\* evolveTillTolerance(inputs, goal, tolerance): entry
CallEvolveTillToleranceWith(inputs, goal, tolerance) ==
    /\ calls' = calls + 1
    /\ call' = [op |-> "evolveTillTolerance", inputs |-> inputs, goal |-> goal,
                tolerance |-> EffectiveTolerance(tolerance), iterationCounter |-> 0,
                untrained |-> (net = initNet)]
    /\ fwdCount' = 0
    /\ stepCount' = 0
    /\ outcome' = "running"
    /\ pc' = "ett_loop"
    /\ UNCHANGED <<net, value, maxIter, gradLog, report, forwards, initNet>>
    /\ UNCHANGED <<nodeVars, graphVars>>

\* evolveTillTolerance: the while test or the tolerance test ends the loop
TillToleranceExit ==
    /\ pc = "ett_loop"
    /\ ~(LoopContinues(call.iterationCounter)
         /\ ~WithinTolerance(value, call.goal, call.tolerance))
    /\ pc' = "ett_report"
    /\ UNCHANGED <<net, value, maxIter, call, fwdCount, stepCount, gradLog, outcome,
                   report, calls, forwards, initNet>>
    /\ UNCHANGED <<nodeVars, graphVars>>

\* evolveTillTolerance: one round of the loop: the two tests, self(inputs), the
\* print, self.stepGeneration(inputs, goal), iterationCounter += 1
TillToleranceRound ==
    /\ pc = "ett_loop"
    /\ LoopContinues(call.iterationCounter)
    /\ ~WithinTolerance(value, call.goal, call.tolerance)
    /\ IF NetForwardRaises(net, call.inputs)
       THEN /\ outcome' = "OverflowError"
            /\ pc' = "idle"
            /\ UNCHANGED <<net, value, call, fwdCount, stepCount, gradLog>>
       ELSE \E st \in {stepGeneration(net, call.inputs, call.goal)} :
                /\ value' = NetForward(net, call.inputs)
                /\ fwdCount' = fwdCount + 1
                /\ net' = st.nodes
                /\ gradLog' = st.log
                /\ stepCount' = stepCount + 1
                /\ IF st.raised
                   THEN outcome' = "OverflowError" /\ pc' = "idle" /\ call' = call
                   ELSE /\ call' = [call EXCEPT !.iterationCounter = @ + 1]
                        /\ pc' = "ett_loop"
                        /\ outcome' = outcome
    /\ UNCHANGED <<maxIter, report, calls, forwards, initNet>>
    /\ UNCHANGED <<nodeVars, graphVars>>

\* evolveTillTolerance: the final print, which divides by goal
TillToleranceReport ==
    /\ pc = "ett_report"
    /\ IF call.goal = 0
       THEN outcome' = "ZeroDivisionError" /\ report' = report
       ELSE outcome' = "ok" /\ report' = PercentOfGoal(value, call.goal)
    /\ pc' = "idle"
    /\ UNCHANGED <<net, value, maxIter, call, fwdCount, stepCount, gradLog, calls,
                   forwards, initNet>>
    /\ UNCHANGED <<nodeVars, graphVars>>

\* the calls a caller makes between two runs, with arguments of its choice
CallForward ==
    /\ pc = "idle"
    /\ forwards < MaxForwards
    /\ \E inputs \in InputVectors : CallForwardWith(inputs)

CallStepGeneration ==
    /\ pc = "idle"
    /\ calls < MaxCalls
    /\ \E inputs \in InputVectors : \E goal \in Goals(inputs) :
          CallStepGenerationWith(inputs, goal)

CallEvolve ==
    /\ pc = "idle"
    /\ calls < MaxCalls
    /\ \E inputs \in InputVectors : \E goal \in Goals(inputs) :
          CallEvolveWith(inputs, goal)

CallEvolveTillTolerance ==
    /\ pc = "idle"
    /\ calls < MaxCalls
    /\ \E inputs \in InputVectors : \E goal \in Goals(inputs) :
          \E tolerance \in Tolerances :
             CallEvolveTillToleranceWith(inputs, goal, tolerance)

TrainerNext ==
    \/ CallForward
    \/ CallStepGeneration
    \/ CallEvolve
    \/ CallEvolveTillTolerance
    \/ EvolveForward
    \/ EvolveStep
    \/ TillToleranceExit
    \/ TillToleranceRound
    \/ TillToleranceReport

(***************************************************************************)
(* Node objects (SpecNode).  A float list is an entry of lists, a children *)
(* list an entry of clists, a Node an entry of units; an identity is the   *)
(* position of the entry.  A unit holds its three lists by identity.       *)
(***************************************************************************)
\* the lists a caller builds a Node from, and the vectors it calls one with
WeightLists == {<<>>, <<Scale>>, <<Scale, MIN_WEIGHT * Scale>>}

BiasLists == {<<>>, <<0>>, <<0, 0>>}

NumsValues ==
    {<<>>, <<Scale>>, <<Scale, Scale, Scale>>,
     <<2000 * Scale, 2000 * Scale>>, <<Scale, 3000 * Scale>>}

GoalValues == {2 * Scale}

\* the draws uniform(-MAX_MUTATION, MAX_MUTATION) of mutate: the two ends
Draws == {-MAX_MUTATION, MAX_MUTATION}

NoOp == [op |-> "none", node |-> 0, error |-> "none", nums |-> <<>>, goal |-> 0,
         learnRate |-> 0, preW |-> <<>>, preB |-> <<>>, passes |-> 0, list |-> 0,
         before |-> 0]

\* faulty variants of the length test: one that only sees a longer weight list,
\* one that sees nothing
WeightsLonger(weights, biases) == Len(weights) > Len(biases)

NoLengthCheck(weights, biases) == FALSE

\* Node.__init__: if len(weights) != len(biases): raise ValueError
LengthsDiffer(weights, biases) == Len(weights) # Len(biases)

\* Node.__init__: the attributes of the new object; weights, biases and childList
\* are the identities of the lists passed in, numWeights is len(weights)
Node(weights, biases, childList, sigmoid_value, numWeights) ==
    [weights |-> weights, biases |-> biases, children |-> childList,
     sigmoid_value |-> sigmoid_value, numInputs |-> numWeights, value |-> 0]

\* no Node yet
NodeInit ==
    /\ lists = <<>>
    /\ clists = <<>>
    /\ units = <<>>
    /\ lastOp = NoOp
    /\ origin = <<>>
    /\ sharing = <<>>
    /\ ops = 0

\* Node(weights, biases, children, sigmoid_value) on two new lists holding
\* weightValues and biasValues, and the children list c (0: a new empty list)
ConstructWith(weightValues, biasValues, c) ==
    IF LengthsDiffer(weightValues, biasValues)
    THEN /\ lastOp' = [NoOp EXCEPT !.op = "construct", !.error = "ValueError",
                                   !.preW = weightValues, !.preB = biasValues,
                                   !.before = Len(units)]
         /\ UNCHANGED <<lists, clists, units, origin, sharing>>
    ELSE /\ lists' = lists \o <<weightValues, biasValues>>
         /\ clists' = IF c = 0 THEN Append(clists, <<>>) ELSE clists
         /\ units' = Append(units, Node(Len(lists) + 1, Len(lists) + 2,
                                        IF c = 0 THEN Len(clists) + 1 ELSE c,
                                        DEFAULT_SIGMOID_VALUE, Len(weightValues)))
         /\ origin' = Append(origin, 0)
         /\ sharing' = Append(sharing, FALSE)
         /\ lastOp' = [NoOp EXCEPT !.op = "construct", !.node = Len(units) + 1,
                                   !.preW = weightValues, !.preB = biasValues,
                                   !.before = Len(units)]

Construct ==
    /\ ops < MaxOps
    /\ Len(units) < MaxUnits
    /\ ops' = ops + 1
    /\ \E weightValues \in WeightLists : \E biasValues \in BiasLists :
          \E c \in 0..Len(clists) : ConstructWith(weightValues, biasValues, c)
    /\ UNCHANGED <<trainerVars, graphVars>>

\* randomNode(numInputs), its draws those of the seed
RandomNodeWith(numInputs, seed) ==
    /\ lists' = lists \o <<randomNode(numInputs, seed, 1, 1).weights,
                           randomNode(numInputs, seed, 1, 1).biases>>
    /\ clists' = Append(clists, <<>>)
    /\ units' = Append(units, Node(Len(lists) + 1, Len(lists) + 2, Len(clists) + 1,
                                   DEFAULT_SIGMOID_VALUE, numInputs))
    /\ origin' = Append(origin, 0)
    /\ sharing' = Append(sharing, FALSE)
    /\ lastOp' = [NoOp EXCEPT !.op = "randomNode", !.node = Len(units) + 1,
                              !.before = Len(units)]

RandomNode ==
    /\ ops < MaxOps
    /\ Len(units) < MaxUnits
    /\ ops' = ops + 1
    /\ \E numInputs \in 0..MaxLen : \E seed \in 1..NumSeeds :
          RandomNodeWith(numInputs, seed)
    /\ UNCHANGED <<trainerVars, graphVars>>

\* units[n](nums)
CallWith(n, nums) ==
    /\ IF NodeCallRaises(lists[units[n].weights], lists[units[n].biases],
                         units[n].sigmoid_value, nums)
       THEN /\ units' = units
            /\ lastOp' = [NoOp EXCEPT !.op = "call", !.node = n, !.nums = nums,
                                      !.error = "OverflowError"]
       ELSE /\ units' = [units EXCEPT ![n].value =
                            NodeCall(lists[units[n].weights], lists[units[n].biases],
                                     units[n].sigmoid_value, units[n].numInputs, nums)]
            /\ lastOp' = [NoOp EXCEPT !.op = "call", !.node = n, !.nums = nums]
    /\ UNCHANGED <<lists, clists, origin, sharing>>

Call ==
    /\ ops < MaxOps
    /\ ops' = ops + 1
    /\ \E n \in 1..Len(units) : \E nums \in NumsValues : CallWith(n, nums)
    /\ UNCHANGED <<trainerVars, graphVars>>

\* units[n].gradient(nums, goal, learnRate): the two lists are updated in place
GradientWith(n, nums, goal, learnRate) ==
    /\ \E r \in {gradient(lists[units[n].weights], lists[units[n].biases], nums, goal,
                          learnRate, units[n].sigmoid_value, units[n].numInputs)} :
          /\ lists' = [lists EXCEPT ![units[n].weights] = r.weights,
                                    ![units[n].biases] = r.biases]
          /\ lastOp' = [NoOp EXCEPT !.op = "gradient", !.node = n, !.nums = nums,
                                    !.goal = goal, !.learnRate = learnRate,
                                    !.preW = lists[units[n].weights],
                                    !.preB = lists[units[n].biases],
                                    !.passes = r.passes,
                                    !.error = IF r.raised THEN "OverflowError"
                                              ELSE "none"]
    /\ UNCHANGED <<clists, units, origin, sharing>>

Gradient ==
    /\ ops < MaxOps
    /\ ops' = ops + 1
    /\ \E n \in 1..Len(units) : \E nums \in NumsValues : \E goal \in GoalValues :
          GradientWith(n, nums, goal, DEFAULT_LEARN_RATE)
    /\ UNCHANGED <<trainerVars, graphVars>>

\* the loops of mutate on one list: values[index] *= (1 - change)
MutateList(values, draws) ==
    [index \in 1..Len(values) |-> FMul(values[index], Scale - draws[index])]

\* units[n].mutate(), with the draws made for the weights and for the biases
MutateWith(n, weightDraws, biasDraws) ==
    /\ lists' = [lists EXCEPT ![units[n].weights] = MutateList(@, weightDraws),
                              ![units[n].biases] = MutateList(@, biasDraws)]
    /\ lastOp' = [NoOp EXCEPT !.op = "mutate", !.node = n,
                              !.preW = lists[units[n].weights],
                              !.preB = lists[units[n].biases]]
    /\ UNCHANGED <<clists, units, origin, sharing>>

Mutate ==
    /\ ops < MaxOps
    /\ ops' = ops + 1
    /\ \E n \in 1..Len(units) :
          \E weightDraws \in [1..Len(lists[units[n].weights]) -> Draws] :
             \E biasDraws \in [1..Len(lists[units[n].biases]) -> Draws] :
                MutateWith(n, weightDraws, biasDraws)
    /\ UNCHANGED <<trainerVars, graphVars>>

\* units[n].setChildren(newChildren), newChildren the list c (0: a new empty list)
SetChildrenWith(n, c) ==
    /\ clists' = IF c = 0 THEN Append(clists, <<>>) ELSE clists
    /\ units' = [units EXCEPT ![n].children = IF c = 0 THEN Len(clists) + 1 ELSE c]
    /\ sharing' = [k \in 1..Len(units) |->
                     IF k = n \/ origin[k] = n THEN FALSE ELSE sharing[k]]
    /\ lastOp' = [NoOp EXCEPT !.op = "setChildren", !.node = n]
    /\ UNCHANGED <<lists, origin>>

SetChildren ==
    /\ ops < MaxOps
    /\ ops' = ops + 1
    /\ \E n \in 1..Len(units) : \E c \in 0..Len(clists) : SetChildrenWith(n, c)
    /\ UNCHANGED <<trainerVars, graphVars>>

\* a holder of the children list c appends the unit m to it
AppendChildWith(c, m) ==
    /\ clists' = [clists EXCEPT ![c] = Append(@, m)]
    /\ lastOp' = [NoOp EXCEPT !.op = "append", !.list = c, !.node = m]
    /\ UNCHANGED <<lists, units, origin, sharing>>

AppendChild ==
    /\ ops < MaxOps
    /\ ops' = ops + 1
    /\ \E c \in 1..Len(clists) : \E m \in 1..Len(units) :
          /\ Len(clists[c]) < MaxKids
          /\ AppendChildWith(c, m)
    /\ UNCHANGED <<trainerVars, graphVars>>

\* a faulty variant of the copy: the lists of the original themselves
shallowcopy(unit, first) ==
    [weights |-> unit.weights, biases |-> unit.biases, children |-> unit.children]

\* Node.__deepcopy__: the lists the copy is made of: weightsCopy and biasesCopy,
\* two new lists (at the identities first and first + 1), and self.children
deepcopy(unit, first) ==
    [weights |-> first, biases |-> first + 1, children |-> unit.children]

\* copy.deepcopy(units[n])
DeepCopyOf(n) ==
    /\ lists' = lists \o <<lists[units[n].weights], lists[units[n].biases]>>
    /\ IF LengthsDiffer(lists[units[n].weights], lists[units[n].biases])
       THEN /\ lastOp' = [NoOp EXCEPT !.op = "deepcopy", !.error = "ValueError",
                                      !.before = Len(units)]
            /\ UNCHANGED <<units, origin, sharing>>
       ELSE \E made \in {deepcopy(units[n], Len(lists) + 1)} :
               /\ units' = Append(units, Node(made.weights, made.biases, made.children,
                                              units[n].sigmoid_value,
                                              Len(lists[units[n].weights])))
               /\ origin' = Append(origin, n)
               /\ sharing' = Append(sharing, TRUE)
               /\ lastOp' = [NoOp EXCEPT !.op = "deepcopy", !.node = Len(units) + 1,
                                         !.before = Len(units)]
    /\ UNCHANGED clists

DeepCopy ==
    /\ ops < MaxOps
    /\ Len(units) < MaxUnits
    /\ ops' = ops + 1
    /\ \E n \in 1..Len(units) : DeepCopyOf(n)
    /\ UNCHANGED <<trainerVars, graphVars>>

\* units[n].asDict(): the mapping holds the two lists themselves
asDict(unit) == [Weights |-> unit.weights, Biases |-> unit.biases]

AsDict ==
    /\ ops < MaxOps
    /\ ops' = ops + 1
    /\ \E n \in 1..Len(units) :
          lastOp' = [NoOp EXCEPT !.op = "asDict", !.node = n,
                                 !.preW = lists[asDict(units[n]).Weights],
                                 !.preB = lists[asDict(units[n]).Biases]]
    /\ UNCHANGED <<lists, clists, units, origin, sharing>>
    /\ UNCHANGED <<trainerVars, graphVars>>

NodeNext ==
    \/ Construct
    \/ RandomNode
    \/ Call
    \/ Gradient
    \/ Mutate
    \/ SetChildren
    \/ AppendChild
    \/ DeepCopy
    \/ AsDict

(***************************************************************************)
(* root.isConnectedTo(other) on a children graph (SpecGraph).  A frame of  *)
(* stack is one isConnectedTo call: its unit, and index, the position in   *)
(* the unit's children the call is at (0: at isInChildren).                *)
(* The interpreter counts levels: one for each running Python function     *)
(* (isConnectedTo, isInChildren, the lambda), one for the running any(),   *)
(* one for a comparison of two objects that are not the same object.  A    *)
(* step that needs a level beyond recursionlimit raises RecursionError.    *)
(***************************************************************************)
GraphNodes == 1..NumGraphNodes

\* the children lists: every list of at most MaxKids units
ChildLists == UNION {[1..k -> GraphNodes] : k \in 0..MaxKids}

\* a faulty variant of the membership test: only the first child is looked at
isFirstChild(childList, o) == Len(childList) > 0 /\ childList[1] = o

\* Node.isInChildren: other in self.children
isInChildren(childList, o) == \E k \in 1..Len(childList) : childList[k] = o

\* the frame on top of the stack, and the children list of its unit
Top == stack[Len(stack)]

TopChildren == children[Top.node]

\* the interpreter level of the k-th nested isConnectedTo frame: below it are,
\* for each enclosing call, its frame, its any() and the lambda
FrameLevel(k) == 3 * k - 2

\* the level of the frame on top of the stack
TopLevel == FrameLevel(Len(stack))

\* other in childList compares other with the entries in order and stops at
\* the first that is other itself; an entry that is another object takes a
\* comparison, so one is made exactly when the first entry is not other
ComparesObjects(childList, o) == Len(childList) > 0 /\ childList[1] # o

\* self.isInChildren(other), called from a frame at level, raises: there is
\* no level for isInChildren's frame, or none for the comparison it makes
isInChildrenRaises(childList, o, level, levels) ==
    \/ level + 1 > levels
    \/ ComparesObjects(childList, o) /\ level + 2 > levels

Pop == SubSeq(stack, 1, Len(stack) - 1)

GraphInit ==
    /\ recursionlimit \in 1..RecursionLimit
    /\ children \in [GraphNodes -> ChildLists]
    /\ root \in GraphNodes
    /\ other \in GraphNodes
    /\ stack = <<>>
    /\ ret = "none"
    /\ gpc = "ready"
    /\ answer = FALSE
    /\ ending = "none"

\* the caller's root.isConnectedTo(other)
ConnectedCall ==
    /\ gpc = "ready"
    /\ gpc' = "running"
    /\ stack' = <<[node |-> root, index |-> 0]>>
    /\ UNCHANGED <<recursionlimit, children, root, other, ret, answer, ending>>
    /\ UNCHANGED <<trainerVars, nodeVars>>

\* self.isInChildren(other) has no level left: RecursionError, which no frame
\* catches
InChildrenRecursionError ==
    /\ gpc = "running" /\ ret = "none" /\ stack # <<>>
    /\ Top.index = 0
    /\ isInChildrenRaises(TopChildren, other, TopLevel, recursionlimit)
    /\ stack' = <<>>
    /\ gpc' = "done"
    /\ ending' = "RecursionError"
    /\ UNCHANGED <<recursionlimit, children, root, other, ret, answer>>
    /\ UNCHANGED <<trainerVars, nodeVars>>

\* self.isInChildren(other) is true: the call returns True
InChildrenTrue ==
    /\ gpc = "running" /\ ret = "none" /\ stack # <<>>
    /\ Top.index = 0
    /\ ~isInChildrenRaises(TopChildren, other, TopLevel, recursionlimit)
    /\ isInChildren(TopChildren, other)
    /\ stack' = Pop
    /\ ret' = "True"
    /\ UNCHANGED <<recursionlimit, children, root, other, gpc, answer, ending>>
    /\ UNCHANGED <<trainerVars, nodeVars>>

\* self.isInChildren(other) is false: on to any(map(...)) over the children
InChildrenFalse ==
    /\ gpc = "running" /\ ret = "none" /\ stack # <<>>
    /\ Top.index = 0
    /\ ~isInChildrenRaises(TopChildren, other, TopLevel, recursionlimit)
    /\ ~isInChildren(TopChildren, other)
    /\ stack' = [stack EXCEPT ![Len(stack)].index = 1]
    /\ UNCHANGED <<recursionlimit, children, root, other, ret, gpc, answer, ending>>
    /\ UNCHANGED <<trainerVars, nodeVars>>

\* child.isConnectedTo(other) for the child at index, called by the lambda
\* that any() runs: a new frame, three levels up
Descend ==
    /\ gpc = "running" /\ ret = "none" /\ stack # <<>>
    /\ Top.index \in 1..Len(TopChildren)
    /\ FrameLevel(Len(stack) + 1) <= recursionlimit
    /\ stack' = Append(stack, [node |-> TopChildren[Top.index], index |-> 0])
    /\ UNCHANGED <<recursionlimit, children, root, other, ret, gpc, answer, ending>>
    /\ UNCHANGED <<trainerVars, nodeVars>>

\* the same call with no level left for the lambda or for the child's frame:
\* RecursionError, which no frame catches
RecursionLimitHit ==
    /\ gpc = "running" /\ ret = "none" /\ stack # <<>>
    /\ Top.index \in 1..Len(TopChildren)
    /\ FrameLevel(Len(stack) + 1) > recursionlimit
    /\ stack' = <<>>
    /\ gpc' = "done"
    /\ ending' = "RecursionError"
    /\ UNCHANGED <<recursionlimit, children, root, other, ret, answer>>
    /\ UNCHANGED <<trainerVars, nodeVars>>

\* any(...) ran out of children: the call returns False
AnyExhausted ==
    /\ gpc = "running" /\ ret = "none" /\ stack # <<>>
    /\ Top.index > Len(TopChildren)
    /\ stack' = Pop
    /\ ret' = "False"
    /\ UNCHANGED <<recursionlimit, children, root, other, gpc, answer, ending>>
    /\ UNCHANGED <<trainerVars, nodeVars>>

\* a child's call returned True: any(...) stops, the call returns True
AnyTrue ==
    /\ gpc = "running" /\ ret = "True" /\ stack # <<>>
    /\ stack' = Pop
    /\ UNCHANGED <<recursionlimit, children, root, other, ret, gpc, answer, ending>>
    /\ UNCHANGED <<trainerVars, nodeVars>>

\* a child's call returned False: any(...) goes on to the next child
AnyNext ==
    /\ gpc = "running" /\ ret = "False" /\ stack # <<>>
    /\ stack' = [stack EXCEPT ![Len(stack)].index = @ + 1]
    /\ ret' = "none"
    /\ UNCHANGED <<recursionlimit, children, root, other, gpc, answer, ending>>
    /\ UNCHANGED <<trainerVars, nodeVars>>

\* the outermost call returned to the caller
ConnectedReturn ==
    /\ gpc = "running" /\ ret # "none" /\ stack = <<>>
    /\ gpc' = "done"
    /\ answer' = (ret = "True")
    /\ ending' = "returned"
    /\ ret' = "none"
    /\ UNCHANGED <<recursionlimit, children, root, other, stack>>
    /\ UNCHANGED <<trainerVars, nodeVars>>

GraphNext ==
    \/ ConnectedCall
    \/ InChildrenRecursionError
    \/ InChildrenTrue
    \/ InChildrenFalse
    \/ Descend
    \/ RecursionLimitHit
    \/ AnyExhausted
    \/ AnyTrue
    \/ AnyNext
    \/ ConnectedReturn

(***************************************************************************)
(* The specifications.                                                     *)
(***************************************************************************)
\* the trainer's variables, where no trainer runs
TrainerRest ==
    /\ net = NewNetwork(1)
    /\ initNet = net
    /\ value = 0
    /\ maxIter = 0
    /\ pc = "idle"
    /\ call = NoCall
    /\ fwdCount = 0
    /\ stepCount = 0
    /\ gradLog = <<>>
    /\ outcome = "none"
    /\ report = 0
    /\ calls = 0
    /\ forwards = 0

\* the graph's variables, where no isConnectedTo call runs
GraphRest ==
    /\ recursionlimit = RecursionLimit
    /\ children = [n \in GraphNodes |-> <<>>]
    /\ root = 1
    /\ other = 1
    /\ stack = <<>>
    /\ ret = "none"
    /\ gpc = "ready"
    /\ answer = FALSE
    /\ ending = "none"

Init == TrainerInit /\ NodeInit /\ GraphRest

Next == TrainerNext

Spec == Init /\ [][Next]_vars

InitNode == TrainerRest /\ NodeInit /\ GraphRest

SpecNode == InitNode /\ [][NodeNext]_vars

InitGraph == TrainerRest /\ NodeInit /\ GraphInit

SpecGraph == InitGraph /\ [][GraphNext]_vars

(***************************************************************************)
(* Properties of GradientNetwork, stated of Spec.                          *)
(***************************************************************************)
\* C1: evolveTillTolerance called on the untrained network, with the goal its
\* forward pass gives on the inputs, converges at iteration 0: a call that ends
\* normally has left the counter at 0, performed no training step and reported
\* a deviation of 0%.
C1_ConvergesAtIterationZero ==
    (/\ pc = "idle"
     /\ call.op = "evolveTillTolerance"
     /\ call.untrained
     /\ outcome = "ok"
     /\ ~NetForwardRaises(initNet, call.inputs)
     /\ call.goal = NetForward(initNet, call.inputs))
    => (call.iterationCounter = 0 /\ stepCount = 0 /\ report = 0)

\* C2: evolveTillTolerance with goal = 0 handles the zero goal: whatever the
\* starting value and the tolerance, the call does not end in a division by
\* zero, with training steps run before the final report fails.
C2_ZeroGoalHandled ==
    (call.op = "evolveTillTolerance" /\ call.goal = 0)
    => outcome # "ZeroDivisionError"

\* C3: for every input vector, non-zero goal and tolerance, evolveTillTolerance
\* ends normally, after at most MAXIMUM_ITERATION training steps, and it ends
\* either with the tolerance test met or with the counter at MAXIMUM_ITERATION.
C3_TerminatesWithinCap ==
    (pc = "idle" /\ call.op = "evolveTillTolerance" /\ call.goal # 0)
    => /\ outcome = "ok"
       /\ stepCount <= MAXIMUM_ITERATION
       /\ stepCount = call.iterationCounter
       /\ \/ WithinTolerance(value, call.goal, call.tolerance)
          \/ call.iterationCounter = MAXIMUM_ITERATION

\* C4: evolve runs exactly maxIter rounds, whatever the value and the goal: when
\* it has ended it has made maxIter forward passes and maxIter training steps,
\* and within a round the forward pass comes before the training step.
C4_EvolveRunsMaxIter ==
    call.op = "evolve"
    => /\ pc = "idle" => (outcome = "ok" /\ fwdCount = maxIter /\ stepCount = maxIter)
       /\ pc = "evolve_forward" => fwdCount = stepCount
       /\ pc = "evolve_step" => fwdCount = stepCount + 1

\* C5: stepGeneration updates only the first layer: after any calls the units of
\* the later layers have their initial weights and biases, and every
\* stepGeneration invokes gradient exactly once on each unit of the first
\* layer, in order.
C5_OnlyFirstLayer ==
    /\ \A l \in (1..NumLayers) \ {TrainedLayer} : net[l] = initNet[l]
    /\ stepCount > 0 => gradLog = [i \in 1..NodesInLayer |-> <<TrainedLayer, i>>]

(***************************************************************************)
(* Properties of Node, stated of SpecNode.                                 *)
(***************************************************************************)
\* C6: constructing a Node raises ValueError exactly when the two lists differ
\* in length; a failed construction yields no unit, a successful one yields a
\* unit holding the two lists, with numInputs their length.
C6_ConstructorValidates ==
    lastOp.op = "construct"
    => /\ lastOp.error \in {"none", "ValueError"}
       /\ (lastOp.error = "ValueError") <=> (Len(lastOp.preW) # Len(lastOp.preB))
       /\ lastOp.error = "ValueError" => (lastOp.node = 0 /\ Len(units) = lastOp.before)
       /\ lastOp.error = "none" =>
             /\ Len(units) = lastOp.before + 1
             /\ lastOp.node = Len(units)
             /\ lists[units[lastOp.node].weights] = lastOp.preW
             /\ lists[units[lastOp.node].biases] = lastOp.preB
             /\ units[lastOp.node].numInputs = Len(lastOp.preW)

\* a construction has just failed with ValueError, after one that succeeded
C6_FailedAfterSuccess ==
    /\ lastOp.op = "construct"
    /\ lastOp.error = "ValueError"
    /\ Len(lastOp.preW) # Len(lastOp.preB)
    /\ Len(units) > 0

\* C7: for every unit, constructed, drawn by randomNode or made by a deep copy,
\* len(weights) = len(biases) = numInputs after any sequence of calls,
\* gradients (with vectors shorter or longer than numInputs), mutations,
\* setChildren, deep copies and asDict.
C7_LengthsAgree ==
    \A n \in 1..Len(units) :
       /\ Len(lists[units[n].weights]) = units[n].numInputs
       /\ Len(lists[units[n].biases]) = units[n].numInputs

\* gradient has just updated a deep copy, called with a vector longer than its
\* numInputs
C7_GradientOnCopyWithLongVector ==
    \E n \in 1..Len(units) :
       /\ origin[n] # 0
       /\ lastOp.op = "gradient"
       /\ lastOp.node = n
       /\ lastOp.passes > 0
       /\ Len(lastOp.nums) > units[n].numInputs

\* C9: a deep copy is a new unit whose weight and bias lists are equal in value
\* to the original's and are new lists, held by no other unit, and whose children
\* list is the original's own; from then on a gradient or mutate on one of the
\* two leaves the lists of the other as they were, and a unit appended to the
\* children list they share is seen by both.
C9_DeepCopyIsolation ==
    [][ /\ (lastOp'.op = "deepcopy" /\ lastOp'.error = "none") =>
             /\ lists'[units'[lastOp'.node].weights]
                   = lists'[units'[origin'[lastOp'.node]].weights]
             /\ lists'[units'[lastOp'.node].biases]
                   = lists'[units'[origin'[lastOp'.node]].biases]
             /\ units'[lastOp'.node].weights # units'[lastOp'.node].biases
             /\ \A k \in 1..Len(units) :
                   {units'[lastOp'.node].weights, units'[lastOp'.node].biases}
                      \cap {units'[k].weights, units'[k].biases} = {}
             /\ units'[lastOp'.node].children = units'[origin'[lastOp'.node]].children
        /\ \A c \in 1..Len(units) :
              origin[c] # 0 =>
                 /\ (lastOp'.op \in {"gradient", "mutate"} /\ lastOp'.node = origin[c]) =>
                       /\ lists'[units'[c].weights] = lists[units[c].weights]
                       /\ lists'[units'[c].biases] = lists[units[c].biases]
                 /\ (lastOp'.op \in {"gradient", "mutate"} /\ lastOp'.node = c) =>
                       /\ lists'[units'[origin[c]].weights] = lists[units[origin[c]].weights]
                       /\ lists'[units'[origin[c]].biases] = lists[units[origin[c]].biases]
                 /\ (/\ lastOp'.op = "append"
                     /\ sharing[c]
                     /\ lastOp'.list \in {units[c].children, units[origin[c]].children}) =>
                       /\ clists'[units'[c].children]
                             = Append(clists[units[c].children], lastOp'.node)
                       /\ clists'[units'[origin[c]].children] = clists'[units'[c].children]
      ]_vars

\* a copy and its original, still with the children list they share, after a
\* gradient or mutate on one of them changed its weights
C9_CopyDivergedChildrenShared ==
    \E c \in 1..Len(units) :
       /\ origin[c] # 0
       /\ sharing[c]
       /\ lastOp.op \in {"gradient", "mutate"}
       /\ lastOp.node \in {c, origin[c]}
       /\ lists[units[c].weights] # lists[units[origin[c]].weights]
       /\ units[c].children = units[origin[c]].children

\* C10: one gradient call updates every index below min(numInputs, len(nums))
\* exactly once, from the weight, bias and input at that index before the call,
\* goal / len(nums), learnRate, the sigmoid coefficient and numInputs, and
\* leaves the indices from len(nums) on as they were.
C10_GradientPerIndex ==
    lastOp.op = "gradient"
    => /\ lastOp.passes = Min(units[lastOp.node].numInputs, Len(lastOp.nums))
       /\ \A i \in 1..Len(lastOp.preW) :
             IF i <= Min(units[lastOp.node].numInputs, Len(lastOp.nums))
             THEN /\ lists[units[lastOp.node].weights][i]
                        = lastOp.preW[i]
                          - FMul(gradientHelper(lastOp.preW[i], lastOp.preB[i],
                                                lastOp.nums[i],
                                                FDivInt(lastOp.goal, Len(lastOp.nums)),
                                                units[lastOp.node].sigmoid_value,
                                                units[lastOp.node].numInputs)[1],
                                 lastOp.learnRate)
                  /\ lists[units[lastOp.node].biases][i]
                        = lastOp.preB[i]
                          - FMul(gradientHelper(lastOp.preW[i], lastOp.preB[i],
                                                lastOp.nums[i],
                                                FDivInt(lastOp.goal, Len(lastOp.nums)),
                                                units[lastOp.node].sigmoid_value,
                                                units[lastOp.node].numInputs)[2],
                                 lastOp.learnRate)
             ELSE /\ lists[units[lastOp.node].weights][i] = lastOp.preW[i]
                  /\ lists[units[lastOp.node].biases][i] = lastOp.preB[i]

(***************************************************************************)
(* Properties of isConnectedTo, stated of SpecGraph.                       *)
(***************************************************************************)
\* the units one child edge from a unit of S
Successors(S) == UNION {{children[n][k] : k \in 1..Len(children[n])} : n \in S}

\* the units one to k child edges from a unit of S
RECURSIVE DescendantsWithin(_, _)
DescendantsWithin(S, k) ==
    IF k = 0 THEN {} ELSE Successors(S) \cup DescendantsWithin(Successors(S), k - 1)

\* the units reachable from n by one or more child edges
Descendants(n) == DescendantsWithin({n}, NumGraphNodes)

\* a cycle of child edges is reachable from n
CycleFrom(n) == \E m \in Descendants(n) \cup {n} : m \in Descendants(m)

MaxOf(S) == CHOOSE x \in S : \A y \in S : y <= x

\* the units on the longest path of child edges from n, counted up to fuel
RECURSIVE HeightWithin(_, _)
HeightWithin(n, fuel) ==
    IF fuel = 0 THEN 0
    ELSE 1 + MaxOf({0} \cup {HeightWithin(children[n][k], fuel - 1) :
                                k \in 1..Len(children[n])})

Height(n) == HeightWithin(n, NumGraphNodes + 1)

\* the levels a descent from n takes at most where no cycle is reachable from
\* n: three for each unit of the longest path, less the comparison, which the
\* last unit of a path, having no children, does not make
LevelsNeeded(n) == 3 * Height(n) - 1

\* C8, as stated (the acyclic part read of calls the interpreter has the levels
\* for): where no cycle is reachable from root, the call ends, returning true
\* exactly when other is a descendant of root; where a cycle is reachable from
\* root and other is not, the call never ends.
C8_CycleNeverEnds ==
    /\ (gpc = "done" /\ ~CycleFrom(root) /\ LevelsNeeded(root) <= recursionlimit) =>
          (ending = "returned" /\ answer = (other \in Descendants(root)))
    /\ (CycleFrom(root) /\ other \notin Descendants(root)) => gpc # "done"

\* C8, amended: a call that returns a value returns true exactly when other is a
\* descendant of root (a child, a grandchild or deeper); where no cycle is
\* reachable from root and the interpreter has the levels the longest path from
\* root takes, the call returns a value; where a cycle is reachable from root
\* and other is not, the call returns no value: it ends with RecursionError.
C8_ConnectedIsReachability ==
    gpc = "done"
    => /\ ending \in {"returned", "RecursionError"}
       /\ ending = "returned" => answer = (other \in Descendants(root))
       /\ (~CycleFrom(root) /\ LevelsNeeded(root) <= recursionlimit) => ending = "returned"
       /\ (CycleFrom(root) /\ other \notin Descendants(root)) => ending = "RecursionError"

\* the call returned true for a unit that is a grandchild and no child of root
C8_GrandchildFound ==
    /\ gpc = "done"
    /\ ending = "returned"
    /\ answer
    /\ ~isInChildren(children[root], other)
    /\ ~CycleFrom(root)

====
